---- MODULE Spec2Model ----
(***************************************************************************)
(* The stock monitor of src/firestorm_monitor.py: one run of main() is one *)
(* cycle  fetch -> load -> classify -> notify -> save.  The only durable    *)
(* state is the snapshot file firestorm_products.json.                     *)
(*                                                                         *)
(* A product record is [sku, stock_qty, old_stock].  The sku is a string   *)
(* in the code; here it is a number and EmptySku stands for "".  The       *)
(* fields title, url, price and image are carried along unread by every    *)
(* step modelled here and are left out.  old_stock is the key main() adds  *)
(* to a product dict when it classifies it; None stands for "key absent".  *)
(***************************************************************************)
EXTENDS Integers, Sequences, FiniteSets

VARIABLES
    file,              \* firestorm_products.json: [state, data]
    webhook,           \* DISCORD_WEBHOOK is set (read once, at import)
    pc,                \* position of main()
    current_products,  \* main(): the fetched list (dicts are mutated in place)
    known_products,    \* main(): the mapping load_known_products() returned
    restocked,         \* main(): list of restocked products
    increased_stock,   \* main(): list of products with more stock
    new_products,      \* main(): list of new products
    outbox,            \* the payloads handed to requests.post, in order
    mon                \* monitor.py / monitor_once.py: [pc, file, current, known, sent]

\* The state of firestorm_monitor.py.
mainvars == <<file, pc, current_products, known_products,
              restocked, increased_stock, new_products, outbox>>

vars == <<file, webhook, pc, current_products, known_products,
          restocked, increased_stock, new_products, outbox, mon>>

-----------------------------------------------------------------------------
(* Bounds of the model *)

MaxStock == 2         \* stock quantities 0..MaxStock
MaxLen == 2           \* longest small fetch
BulkExtra == 1        \* bulk fetches have Cap .. Cap+BulkExtra records

(* Program constants *)

Cap == 10             \* products[:10]
EmptySku == 0         \* sku = ""
None == -1            \* dict key absent / Python None

-----------------------------------------------------------------------------
(* Data *)

Product(s, q) == [sku |-> s, stock_qty |-> q, old_stock |-> None]

\* The skus of the small fetches: the empty one and two catalogue entries.
SmallSkus == {EmptySku, 1, 2}

SmallRecords == {Product(s, q) : s \in SmallSkus, q \in 0..MaxStock}

RECURSIVE SeqsUpTo(_, _)
SeqsUpTo(S, n) ==
    IF n = 0 THEN {<< >>}
    ELSE LET shorter == SeqsUpTo(S, n - 1)
         IN  shorter \cup {Append(s, x) : s \in {t \in shorter : Len(t) = n - 1}, x \in S}

\* A run of k listings (skus 2..k+1) that all show the same quantity.
BulkList(k, q) == [i \in 1..k |-> Product(i + 1, q)]

FetchLists ==
    SeqsUpTo(SmallRecords, MaxLen)
      \cup {BulkList(k, q) : k \in Cap..(Cap + BulkExtra), q \in 0..MaxStock}

EmptyDict == << >>

-----------------------------------------------------------------------------
(* Snapshot store *)

\* Mutant: a file that does not parse yields the entries read so far.
load_known_products_Lenient(f) ==
    CASE f.state = "valid"   -> f.data
      [] f.state = "absent"  -> EmptyDict
      [] f.state = "corrupt" -> f.data

\* load_known_products: the mapping in the file; {} when the file is missing
\* (FileNotFoundError) or does not parse (JSONDecodeError).
load_known_products(f) ==
    CASE f.state = "valid"   -> f.data
      [] f.state = "absent"  -> EmptyDict
      [] f.state = "corrupt" -> EmptyDict

\* {p['sku']: p for p in products if p['sku']}: a later occurrence of a sku
\* overwrites an earlier one; records with an empty sku are left out.
LastIndex(products, s) ==
    CHOOSE i \in DOMAIN products :
        /\ products[i].sku = s
        /\ \A j \in DOMAIN products : products[j].sku = s => j <= i

\* Mutant: the first occurrence of a sku is kept instead of the last.
products_dict_FirstWins(products) ==
    [s \in {products[i].sku : i \in DOMAIN products} \ {EmptySku}
        |-> products[CHOOSE i \in DOMAIN products :
                        /\ products[i].sku = s
                        /\ \A j \in DOMAIN products : products[j].sku = s => i <= j]]

products_dict(products) ==
    [s \in {products[i].sku : i \in DOMAIN products} \ {EmptySku}
        |-> products[LastIndex(products, s)]]

\* Mutant: the new records are merged into the loaded mapping.
save_known_products_Merge(products) ==
    [state |-> "valid",
     data  |-> [s \in DOMAIN known_products \cup DOMAIN products_dict(products) |->
                   IF s \in DOMAIN products_dict(products)
                   THEN products_dict(products)[s]
                   ELSE known_products[s]]]

\* save_known_products: the file is rewritten with products_dict.
save_known_products(products) ==
    [state |-> "valid", data |-> products_dict(products)]

-----------------------------------------------------------------------------
(* Classification: one pass of the for loop of main() *)

\* Mutant: the restock test is lost, every rise goes to the increase branch.
Branch_NoRestock(known, product) ==
    IF product.sku = EmptySku THEN "skip"
    ELSE IF product.sku \notin DOMAIN known
         THEN IF product.stock_qty > 0 THEN "new" ELSE "none"
         ELSE IF product.stock_qty > known[product.sku].stock_qty
              THEN "increased" ELSE "none"

\* Mutant: the increase test compares the wrong way round.
Branch_Decrease(known, product) ==
    IF product.sku = EmptySku THEN "skip"
    ELSE IF product.sku \notin DOMAIN known
         THEN IF product.stock_qty > 0 THEN "new" ELSE "none"
         ELSE LET old_stock == known[product.sku].stock_qty
                  new_stock == product.stock_qty
              IN  IF old_stock = 0 /\ new_stock > 0 THEN "restocked"
                  ELSE IF new_stock < old_stock /\ old_stock > 0 THEN "increased"
                  ELSE "none"

\* Mutant: the increase test is >= instead of >.
Branch_GreaterEqual(known, product) ==
    IF product.sku = EmptySku THEN "skip"
    ELSE IF product.sku \notin DOMAIN known
         THEN IF product.stock_qty > 0 THEN "new" ELSE "none"
         ELSE LET old_stock == known[product.sku].stock_qty
                  new_stock == product.stock_qty
              IN  IF old_stock = 0 /\ new_stock > 0 THEN "restocked"
                  ELSE IF new_stock >= old_stock /\ old_stock > 0 THEN "increased"
                  ELSE "none"

\* Mutant: an unknown sku is new whatever its stock.
Branch_NewAlways(known, product) ==
    IF product.sku = EmptySku THEN "skip"
    ELSE IF product.sku \notin DOMAIN known
         THEN "new"
         ELSE LET old_stock == known[product.sku].stock_qty
                  new_stock == product.stock_qty
              IN  IF old_stock = 0 /\ new_stock > 0 THEN "restocked"
                  ELSE IF new_stock > old_stock /\ old_stock > 0 THEN "increased"
                  ELSE "none"

\* Mutant: the loop does not skip a record whose sku is empty.
Branch_NoSkuCheck(known, product) ==
    IF product.sku \notin DOMAIN known
    THEN IF product.stock_qty > 0 THEN "new" ELSE "none"
    ELSE LET old_stock == known[product.sku].stock_qty
             new_stock == product.stock_qty
         IN  IF old_stock = 0 /\ new_stock > 0 THEN "restocked"
             ELSE IF new_stock > old_stock /\ old_stock > 0 THEN "increased"
             ELSE "none"

\* What the loop body does with one product: "skip" (empty sku), "new",
\* "restocked", "increased", or "none" (no list gets it).
Branch(known, product) ==
    IF product.sku = EmptySku THEN "skip"
    ELSE IF product.sku \notin DOMAIN known
         THEN IF product.stock_qty > 0 THEN "new" ELSE "none"
         ELSE LET old_stock == known[product.sku].stock_qty
                  new_stock == product.stock_qty
              IN  IF old_stock = 0 /\ new_stock > 0 THEN "restocked"
                  ELSE IF new_stock > old_stock /\ old_stock > 0 THEN "increased"
                  ELSE "none"

\* product['old_stock'] = old_stock, on the dict that sits in current_products.
Mutated(known, product) ==
    IF Branch(known, product) \in {"restocked", "increased"}
    THEN [product EXCEPT !.old_stock = known[product.sku].stock_qty]
    ELSE product

\* current_products after the loop.
AfterLoop(known, products) ==
    [i \in DOMAIN products |-> Mutated(known, products[i])]

\* Mutant: the loop inserts at the front of the list instead of appending.
RECURSIVE Appended_Reversed(_, _, _)
Appended_Reversed(known, products, branch) ==
    IF products = << >> THEN << >>
    ELSE LET n    == Len(products)
             rest == Appended_Reversed(known, SubSeq(products, 1, n - 1), branch)
         IN  IF Branch(known, products[n]) = branch
             THEN <<Mutated(known, products[n])>> \o rest
             ELSE rest

\* The products the loop appended to the list of one branch, in loop order.
RECURSIVE Appended(_, _, _)
Appended(known, products, branch) ==
    IF products = << >> THEN << >>
    ELSE LET n    == Len(products)
             rest == Appended(known, SubSeq(products, 1, n - 1), branch)
         IN  IF Branch(known, products[n]) = branch
             THEN Append(rest, Mutated(known, products[n]))
             ELSE rest

-----------------------------------------------------------------------------
(* Notification *)

Min(a, b) == IF a < b THEN a ELSE b

\* The embeds after the summary embed: one per product of products[:10].
Embeds(products) == SubSeq(products, 1, Min(Len(products), Cap))

\* The payload send_discord_notification posts.
Payload(title, count, products, ok) ==
    [title |-> title, count |-> count, embeds |-> Embeds(products), delivered |-> ok]

\* send_discord_notification: nothing without a webhook; otherwise one post,
\* which succeeds or raises (the exception is caught and printed).
send_discord_notification(title, count, products, ok) ==
    IF ~webhook THEN outbox
    ELSE Append(outbox, Payload(title, count, products, ok))

-----------------------------------------------------------------------------
(* main(): one run is one cycle *)

NoFile == [state |-> "absent", data |-> EmptyDict]

\* monitor.py and monitor_once.py before their first run: no
\* known_products.json, nothing fetched, nothing sent.
MonInit ==
    [pc |-> "idle", file |-> [state |-> "absent", data |-> << >>],
     current |-> << >>, known |-> << >>, sent |-> << >>]

Init ==
    /\ mon = MonInit
    /\ file = NoFile
    /\ webhook \in BOOLEAN
    /\ pc = "start"
    /\ current_products = << >>
    /\ known_products = EmptyDict
    /\ restocked = << >>
    /\ increased_stock = << >>
    /\ new_products = << >>
    /\ outbox = << >>

\* The places where main() returns.
Returned == {"no_products", "first_run", "done"}

\* Mutant: the empty-fetch check is missing.
Fetch_NoEmptyCheck ==
    /\ pc = "start"
    /\ \E products \in FetchLists : current_products' = products
    /\ pc' = "fetched"
    /\ UNCHANGED <<mon, file, webhook, known_products, restocked, increased_stock,
                   new_products, outbox>>

\* current_products = get_all_products(); return when it is empty.
Fetch ==
    /\ pc = "start"
    /\ \E products \in FetchLists :
          /\ current_products' = products
          /\ pc' = IF products = << >> THEN "no_products" ELSE "fetched"
    /\ UNCHANGED <<mon, file, webhook, known_products, restocked, increased_stock,
                   new_products, outbox>>

\* known_products = load_known_products(); on an empty mapping the fetch is
\* saved and main() returns.
Load ==
    /\ pc = "fetched"
    /\ known_products' = load_known_products(file)
    /\ IF load_known_products(file) = EmptyDict
       THEN /\ file' = save_known_products(current_products)
            /\ pc' = "first_run"
       ELSE /\ file' = file
            /\ pc' = "loaded"
    /\ UNCHANGED <<mon, webhook, current_products, restocked, increased_stock,
                   new_products, outbox>>

\* Mutant: the snapshot is saved right after the loop, before the posts.
Classify_SavesEarly ==
    /\ pc = "loaded"
    /\ restocked' = Appended(known_products, current_products, "restocked")
    /\ increased_stock' = Appended(known_products, current_products, "increased")
    /\ new_products' = Appended(known_products, current_products, "new")
    /\ current_products' = AfterLoop(known_products, current_products)
    /\ pc' = "classified"
    /\ file' = save_known_products(AfterLoop(known_products, current_products))
    /\ UNCHANGED <<mon, webhook, known_products, outbox>>

\* The for loop over current_products.
Classify ==
    /\ pc = "loaded"
    /\ restocked' = Appended(known_products, current_products, "restocked")
    /\ increased_stock' = Appended(known_products, current_products, "increased")
    /\ new_products' = Appended(known_products, current_products, "new")
    /\ current_products' = AfterLoop(known_products, current_products)
    /\ pc' = "classified"
    /\ UNCHANGED <<mon, file, webhook, known_products, outbox>>

\* if restocked: send_discord_notification("RESTOCK ALERT!", ...)
NotifyRestocked ==
    /\ pc = "classified"
    /\ IF restocked # << >>
       THEN \E ok \in BOOLEAN :
               outbox' = send_discord_notification(
                             "RESTOCK ALERT!", Len(restocked), restocked, ok)
       ELSE outbox' = outbox
    /\ pc' = "restocked_done"
    /\ UNCHANGED <<mon, file, webhook, current_products, known_products,
                   restocked, increased_stock, new_products>>

\* if increased_stock: send_discord_notification("Stock Increased", ...)
NotifyIncreased ==
    /\ pc = "restocked_done"
    /\ IF increased_stock # << >>
       THEN \E ok \in BOOLEAN :
               outbox' = send_discord_notification(
                             "Stock Increased", Len(increased_stock), increased_stock, ok)
       ELSE outbox' = outbox
    /\ pc' = "increased_done"
    /\ UNCHANGED <<mon, file, webhook, current_products, known_products,
                   restocked, increased_stock, new_products>>

\* if new_products: send_discord_notification("New Products Added!", ...)
NotifyNew ==
    /\ pc = "increased_done"
    /\ IF new_products # << >>
       THEN \E ok \in BOOLEAN :
               outbox' = send_discord_notification(
                             "New Products Added!", Len(new_products), new_products, ok)
       ELSE outbox' = outbox
    /\ pc' = "new_done"
    /\ UNCHANGED <<mon, file, webhook, current_products, known_products,
                   restocked, increased_stock, new_products>>

\* save_known_products(current_products), the last statement of main().
Save ==
    /\ pc = "new_done"
    /\ file' = save_known_products(current_products)
    /\ pc' = "done"
    /\ UNCHANGED <<mon, webhook, current_products, known_products,
                   restocked, increased_stock, new_products, outbox>>

\* The process ends: the locals of main() are gone, the file stays, and the
\* next run starts from the top.
Exit ==
    /\ pc \in Returned
    /\ pc' = "start"
    /\ current_products' = << >>
    /\ known_products' = EmptyDict
    /\ restocked' = << >>
    /\ increased_stock' = << >>
    /\ new_products' = << >>
    /\ outbox' = << >>
    /\ UNCHANGED <<mon, file, webhook>>

Next ==
    \/ Fetch
    \/ Load
    \/ Classify
    \/ NotifyRestocked
    \/ NotifyIncreased
    \/ NotifyNew
    \/ Save
    \/ Exit

Spec == Init /\ [][Next]_vars

-----------------------------------------------------------------------------
(* main() with the write of the snapshot taken apart, and with the process
   being terminated between steps.  open(..., 'w') empties the file, json.dump
   writes the entries in dict order, and the file is complete once the with
   block has closed it. *)

\* The keys of products_dict in insertion order: non-empty skus by first
\* occurrence.
RECURSIVE KeyOrder(_)
KeyOrder(products) ==
    IF products = << >> THEN << >>
    ELSE LET n     == Len(products)
             front == KeyOrder(SubSeq(products, 1, n - 1))
         IN  IF \/ products[n].sku = EmptySku
                \/ \E i \in DOMAIN front : front[i] = products[n].sku
             THEN front
             ELSE Append(front, products[n].sku)

\* The file right after open(..., 'w'): zero bytes, which json.load rejects.
Truncated == [state |-> "corrupt", data |-> EmptyDict]

\* The file with the first n entries of the dump on disk and the rest, and
\* the closing brace, missing.
PartlyWritten(products, n) ==
    [state |-> "corrupt",
     data  |-> [s \in {KeyOrder(products)[i] : i \in 1..n}
                   |-> products_dict(products)[s]]]

\* The fetches explored together with terminations: every record has a sku
\* and no sku is listed twice.
CleanLists ==
    {products \in FetchLists :
        \A i \in DOMAIN products :
            /\ products[i].sku # EmptySku
            /\ \A j \in DOMAIN products :
                  products[i].sku = products[j].sku => i = j}

\* current_products = get_all_products(), as in Fetch, over CleanLists.
FetchClean ==
    /\ pc = "start"
    /\ \E products \in CleanLists :
          /\ current_products' = products
          /\ pc' = IF products = << >> THEN "no_products" ELSE "fetched"
    /\ UNCHANGED <<mon, file, webhook, known_products, restocked, increased_stock,
                   new_products, outbox>>

\* Mutant: the loop is skipped only when the file is missing.
LoadStep_AbsentOnly ==
    /\ pc = "fetched"
    /\ known_products' = load_known_products(file)
    /\ pc' = IF file.state = "absent" THEN "first_run_save" ELSE "loaded"
    /\ UNCHANGED <<mon, file, webhook, current_products, restocked, increased_stock,
                   new_products, outbox>>

\* known_products = load_known_products() and the first-run test.
LoadStep ==
    /\ pc = "fetched"
    /\ known_products' = load_known_products(file)
    /\ pc' = IF load_known_products(file) = EmptyDict
             THEN "first_run_save" ELSE "loaded"
    /\ UNCHANGED <<mon, file, webhook, current_products, restocked, increased_stock,
                   new_products, outbox>>

\* save_known_products: with open('firestorm_products.json', 'w') as f
SaveOpen ==
    /\ pc \in {"first_run_save", "new_done"}
    /\ file' = Truncated
    /\ pc' = IF pc = "first_run_save" THEN "first_run_writing" ELSE "writing"
    /\ UNCHANGED <<mon, webhook, current_products, known_products,
                   restocked, increased_stock, new_products, outbox>>

\* json.dump under way: some more entries, not all, have reached the file.
SaveWrite ==
    /\ pc \in {"first_run_writing", "writing"}
    /\ \E n \in 1..(Len(KeyOrder(current_products)) - 1) :
          /\ n > Cardinality(DOMAIN file.data)
          /\ file' = PartlyWritten(current_products, n)
    /\ UNCHANGED <<mon, webhook, pc, current_products, known_products,
                   restocked, increased_stock, new_products, outbox>>

\* json.dump done and the file closed; main() returns.
SaveClose ==
    /\ pc \in {"first_run_writing", "writing"}
    /\ file' = save_known_products(current_products)
    /\ pc' = IF pc = "first_run_writing" THEN "first_run" ELSE "done"
    /\ UNCHANGED <<mon, webhook, current_products, known_products,
                   restocked, increased_stock, new_products, outbox>>

\* The positions inside a run of main().
Running ==
    {"fetched", "loaded", "classified", "restocked_done", "increased_done",
     "new_done", "first_run_save", "first_run_writing", "writing"}

\* The process is terminated: its locals are gone, the file stays as it is.
Kill ==
    /\ pc \in Running
    /\ pc' = "start"
    /\ current_products' = << >>
    /\ known_products' = EmptyDict
    /\ restocked' = << >>
    /\ increased_stock' = << >>
    /\ new_products' = << >>
    /\ outbox' = << >>
    /\ UNCHANGED <<mon, file, webhook>>

NextFault ==
    \/ FetchClean
    \/ LoadStep
    \/ Classify
    \/ NotifyRestocked
    \/ NotifyIncreased
    \/ NotifyNew
    \/ SaveOpen
    \/ SaveWrite
    \/ SaveClose
    \/ Kill
    \/ Exit

SpecFault == Init /\ [][NextFault]_vars

-----------------------------------------------------------------------------
(* monitor.py (a loop in one process) and monitor_once.py (one cycle per
   run).  Both keep the list of the products last saved in
   known_products.json and tell products apart by their url; a product is
   modelled by its url. *)

Urls == {1, 2, 3}

\* get_products(): the products on the page, or [] when the request fails.
UrlLists == SeqsUpTo(Urls, MaxLen)

\* load_known_products of monitor.py / monitor_once.py: [] when the file is
\* missing or does not parse.
MonLoad(f) == IF f.state = "valid" THEN f.data ELSE << >>

\* save_known_products of monitor.py / monitor_once.py.
MonSave(products) == [state |-> "valid", data |-> products]

\* [p for p in current_products if p['url'] not in known_urls]
NewUrls(known, current) ==
    LET Test(u) == \A j \in DOMAIN known : known[j] # u
    IN  SelectSeq(current, Test)

\* send_discord_notification(product) for each new product: nothing is
\* posted without a webhook.
MonSent(new) == IF webhook THEN new ELSE << >>

\* Mutant: the file is rewritten in every cycle with a non-empty fetch.
CheckCycle_AlwaysSaves(pcAfter, products, firstRunCheck) ==
    IF products = << >>
    THEN [pc |-> pcAfter, file |-> mon.file, current |-> products,
          known |-> << >>, sent |-> << >>]
    ELSE [pc |-> pcAfter, file |-> MonSave(products), current |-> products,
          known |-> MonLoad(mon.file),
          sent |-> IF firstRunCheck /\ MonLoad(mon.file) = << >> THEN << >>
                   ELSE MonSent(NewUrls(MonLoad(mon.file), products))]

\* One check: the body of the while loop of monitor.py (firstRunCheck
\* FALSE), or main() of monitor_once.py (firstRunCheck TRUE).
CheckCycle(pcAfter, products, firstRunCheck) ==
    IF products = << >>
    THEN [pc |-> pcAfter, file |-> mon.file, current |-> products,
          known |-> << >>, sent |-> << >>]
    ELSE LET known == MonLoad(mon.file)
             new   == NewUrls(known, products)
         IN  IF firstRunCheck /\ known = << >>
             THEN [pc |-> pcAfter, file |-> MonSave(products),
                   current |-> products, known |-> known, sent |-> << >>]
             ELSE [pc |-> pcAfter,
                   file |-> IF new # << >> THEN MonSave(products) ELSE mon.file,
                   current |-> products, known |-> known, sent |-> MonSent(new)]

\* monitor.py, main() before the loop: the initial fetch seeds the file when
\* it is non-empty and nothing is known yet.
MonitorStartup ==
    /\ mon.pc = "idle"
    /\ \E products \in UrlLists :
          mon' = IF products = << >>
                 THEN [mon EXCEPT !.pc = "loop"]
                 ELSE [pc |-> "loop",
                       file |-> IF MonLoad(mon.file) = << >>
                                THEN MonSave(products) ELSE mon.file,
                       current |-> products, known |-> MonLoad(mon.file),
                       sent |-> << >>]
    /\ UNCHANGED <<mainvars, webhook>>

\* monitor.py, one pass of the while loop.
MonitorCheck ==
    /\ mon.pc = "loop"
    /\ \E products \in UrlLists : mon' = CheckCycle("loop", products, FALSE)
    /\ UNCHANGED <<mainvars, webhook>>

\* monitor_once.py, one run of main().
OnceRun ==
    /\ mon.pc \in {"idle", "once"}
    /\ \E products \in UrlLists : mon' = CheckCycle("once", products, TRUE)
    /\ UNCHANGED <<mainvars, webhook>>

NextMonitor ==
    \/ MonitorStartup
    \/ MonitorCheck
    \/ OnceRun

SpecMonitor == Init /\ [][NextMonitor]_vars

-----------------------------------------------------------------------------
(* Vocabulary of the properties *)

\* The loop has run: the three lists hold this cycle's events.
Classified ==
    pc \in {"classified", "restocked_done", "increased_done", "new_done", "done"}

\* All notifications of the cycle have been attempted.
Notified == pc \in {"new_done", "done"}

AllSkus == {current_products[i].sku : i \in DOMAIN current_products}
              \cup DOMAIN known_products

\* The entries of a list that are about sku s, in order.
OfSku(list, s) == LET Test(p) == p.sku = s IN SelectSeq(list, Test)

Occurrences(s) == OfSku(current_products, s)

\* Number of events the cycle produced for sku s.
EventCount(s) ==
    Len(OfSku(restocked, s)) + Len(OfSku(increased_stock, s))
        + Len(OfSku(new_products, s))

NoEvents == restocked = << >> /\ increased_stock = << >> /\ new_products = << >>

\* The stock the fetch shows for s: that of its last occurrence.
CurrentStock(s) == Occurrences(s)[Len(Occurrences(s))].stock_qty

\* The posts whose detail blocks include sku s.
AlertsFor(s) ==
    {i \in DOMAIN outbox : \E j \in DOMAIN outbox[i].embeds :
                               outbox[i].embeds[j].sku = s}

WithTitle(title) == LET Test(m) == m.title = title IN SelectSeq(outbox, Test)

RECURSIVE EmbedTotal(_)
EmbedTotal(msgs) ==
    IF msgs = << >> THEN 0
    ELSE Len(msgs[Len(msgs)].embeds) + EmbedTotal(SubSeq(msgs, 1, Len(msgs) - 1))

CeilDiv(k, c) == (k + c - 1) \div c

-----------------------------------------------------------------------------
(* Properties *)

\* The availability changes of the purpose statement, between the loaded
\* snapshot and the fetch.
Changed(s) ==
    /\ Occurrences(s) # << >>
    /\ IF s \notin DOMAIN known_products
       THEN CurrentStock(s) > 0
       ELSE \/ known_products[s].stock_qty = 0 /\ CurrentStock(s) > 0
            \/ /\ known_products[s].stock_qty > 0
               /\ CurrentStock(s) > known_products[s].stock_qty

Unchanged(s) ==
    /\ s \in DOMAIN known_products
    /\ Occurrences(s) # << >>
    /\ \A i \in DOMAIN Occurrences(s) :
          Occurrences(s)[i].stock_qty = known_products[s].stock_qty

AllDelivered == webhook /\ \A i \in DOMAIN outbox : outbox[i].delivered

\* C1: in a completed cycle over a non-empty prior snapshot in which the
\* transport accepted every post, every availability change of a key (new
\* with positive stock, 0 to positive, positive and rising) is in exactly one
\* posted alert, and a key whose stock is unchanged is in none.
C1_ExactlyOncePerTransition ==
    (pc = "done" /\ AllDelivered) =>
        \A s \in AllSkus \ {EmptySku} :
            /\ Changed(s) => Cardinality(AlertsFor(s)) = 1
            /\ Unchanged(s) => AlertsFor(s) = {}

\* C2 as stated: a first run (empty loaded snapshot) produces no event, posts
\* nothing, and every one of the fetched records is in the persisted snapshot.
C2_PersistsAllFetched ==
    pc = "first_run" =>
        /\ NoEvents
        /\ outbox = << >>
        /\ \A i \in DOMAIN current_products :
              \E s \in DOMAIN file.data : file.data[s] = current_products[i]

\* C2 amended: a cycle that loads an empty snapshot goes no further than the
\* first-run return; it produces no event, posts nothing, and persists
\* exactly the fetched records that have a non-empty key, one per key (the
\* last occurrence of the key in the fetch).
C2_FirstRunSeedsKeyedRecords ==
    /\ (pc = "loaded" \/ Classified) => known_products # EmptyDict
    /\ pc = "first_run" =>
          /\ known_products = EmptyDict
          /\ NoEvents
          /\ outbox = << >>
          /\ file.state = "valid"
          /\ DOMAIN file.data = AllSkus \ {EmptySku}
          /\ \A s \in DOMAIN file.data :
                file.data[s] = Occurrences(s)[Len(Occurrences(s))]

C2_Witness ==
    /\ pc = "first_run"
    /\ Len(current_products) = 2
    /\ \E i \in DOMAIN current_products : current_products[i].sku = EmptySku
    /\ \E i \in DOMAIN current_products :
          current_products[i].sku # EmptySku /\ current_products[i].stock_qty > 0
    /\ Cardinality(DOMAIN file.data) = 1

InStock(list) == LET Test(p) == p.stock_qty > 0 IN SelectSeq(list, Test)

Above(list, m) == LET Test(p) == p.stock_qty > m IN SelectSeq(list, Test)

NewButZero(s) ==
    /\ s # EmptySku
    /\ s \notin DOMAIN known_products
    /\ Occurrences(s) # << >>
    /\ \A i \in DOMAIN Occurrences(s) : Occurrences(s)[i].stock_qty = 0

\* C5: a key absent from the non-empty prior snapshot and fetched with stock
\* 0 produces no event and is in no alert, its record is in the snapshot the
\* cycle persists, and the loop of a run that loads this snapshot takes the
\* restocked branch (not the new one) for that key with any positive stock.
C5_NewButZero ==
    pc = "done" =>
        \A s \in AllSkus :
            NewButZero(s) =>
                /\ EventCount(s) = 0
                /\ AlertsFor(s) = {}
                /\ s \in DOMAIN file.data
                /\ file.data[s].stock_qty = 0
                /\ \A n \in 1..MaxStock :
                      Branch(load_known_products(file), Product(s, n)) = "restocked"

C5_Witness ==
    /\ pc = "done"
    /\ \E s \in AllSkus : NewButZero(s) /\ file.data[s] = Product(s, 0)

\* C6: a key of the prior snapshot that is absent from a non-empty fetch
\* produces no event, is in no alert, and is absent from the snapshot the
\* cycle persists; the persisted snapshot holds keys of the fetch only.
C6_Delisting ==
    pc = "done" =>
        /\ \A s \in DOMAIN known_products :
              Occurrences(s) = << >> =>
                  /\ EventCount(s) = 0
                  /\ AlertsFor(s) = {}
                  /\ s \notin DOMAIN file.data
        /\ DOMAIN file.data \subseteq
              {current_products[i].sku : i \in DOMAIN current_products}

C6_Witness ==
    /\ pc = "done"
    /\ \E s \in DOMAIN known_products :
          /\ Occurrences(s) = << >>
          /\ file.data # EmptyDict
          /\ s \notin DOMAIN file.data

SameRecords ==
    {current_products[i] : i \in DOMAIN current_products}
        = {known_products[s] : s \in DOMAIN known_products}

\* C7: a cycle over a non-empty snapshot S whose fetch has the same records
\* as S produces no event, posts nothing, and saves a snapshot equal to S.
C7_Idempotence ==
    (pc = "done" /\ SameRecords) =>
        /\ NoEvents
        /\ outbox = << >>
        /\ file.state = "valid"
        /\ file.data = known_products

C7_Witness ==
    /\ pc = "done"
    /\ SameRecords
    /\ Cardinality(DOMAIN known_products) = 2
    /\ \E s \in DOMAIN known_products : known_products[s].stock_qty > 0
    /\ file.data = known_products

\* C8: with a webhook, once the notifications of a cycle are made, a
\* category holding k events has been posted as ceil(k / cap) messages whose
\* detail blocks together are the k events.
C8_SplitsBeyondCap ==
    (Notified /\ webhook) =>
        /\ Len(WithTitle("RESTOCK ALERT!")) = CeilDiv(Len(restocked), Cap)
        /\ EmbedTotal(WithTitle("RESTOCK ALERT!")) = Len(restocked)
        /\ Len(WithTitle("Stock Increased")) = CeilDiv(Len(increased_stock), Cap)
        /\ EmbedTotal(WithTitle("Stock Increased")) = Len(increased_stock)
        /\ Len(WithTitle("New Products Added!")) = CeilDiv(Len(new_products), Cap)
        /\ EmbedTotal(WithTitle("New Products Added!")) = Len(new_products)

\* C9: a key that is in the fetch and in the prior snapshot gets at most one
\* event in a cycle, also when the fetch lists the key more than once.
C9_AtMostOneEventPerKey ==
    Classified =>
        \A s \in DOMAIN known_products :
            Occurrences(s) # << >> => EventCount(s) <= 1

\* C10: a fetch of zero records ends the run at the no-products return with
\* nothing loaded, nothing classified, nothing posted and the snapshot file
\* as it was; the file is still the same when the process has exited.
C10_EmptyFetchAborts ==
    [][/\ (pc = "start" /\ pc' # "start" /\ current_products' = << >>) =>
            /\ pc' = "no_products"
            /\ file' = file
            /\ known_products' = EmptyDict
            /\ NoEvents'
            /\ outbox' = << >>
       /\ pc = "no_products" => (pc' = "start" /\ file' = file)]_vars

C10_Witness ==
    /\ pc = "no_products"
    /\ file.state = "valid"
    /\ file.data # EmptyDict

\* The record as get_all_products returned it, before the loop touched it.
Original(product) == [product EXCEPT !.old_stock = None]

Refetched == [i \in DOMAIN current_products |-> Original(current_products[i])]

\* C11: a cycle with a non-empty fetch and a non-empty prior snapshot ends
\* with the fetched records saved, whatever became of the posts, and the
\* loop of the next cycle, run on the saved snapshot over the same fetch,
\* appends nothing.
C11_SavedThenQuiet ==
    pc = "done" =>
        /\ file.state = "valid"
        /\ DOMAIN file.data = AllSkus \ ({EmptySku} \cup
              {s \in DOMAIN known_products : Occurrences(s) = << >>})
        /\ \A i \in DOMAIN Refetched :
              Branch(load_known_products(file), Refetched[i]) \in {"none", "skip"}

Rank(title) ==
    CASE title = "RESTOCK ALERT!"      -> 1
      [] title = "Stock Increased"     -> 2
      [] title = "New Products Added!" -> 3

\* a is b with some entries left out.
RECURSIVE IsSubseq(_, _)
IsSubseq(a, b) ==
    IF a = << >> THEN TRUE
    ELSE IF b = << >> THEN FALSE
    ELSE IF Head(a) = Head(b) THEN IsSubseq(Tail(a), Tail(b))
    ELSE IsSubseq(a, Tail(b))

\* C14: the posts of a cycle are in the order Restocked, Increased, Added,
\* at most one of each, and the detail blocks of each post are in the order
\* of their records in the fetched list.
C14_OutputOrdering ==
    \A i \in DOMAIN outbox :
        /\ \A j \in DOMAIN outbox :
              i < j => Rank(outbox[i].title) < Rank(outbox[j].title)
        /\ IsSubseq(outbox[i].embeds, current_products)

C14_Witness ==
    /\ Notified
    /\ Len(outbox) = 2
    /\ \E i \in DOMAIN outbox :
          /\ Len(outbox[i].embeds) >= 2
          /\ outbox[i].embeds[1] # outbox[i].embeds[2]

\* C15: when the fetch lists a key more than once, the key gets an event
\* only through its last occurrence (one event if that occurrence is a
\* change against the snapshot, none otherwise), and the record saved for
\* the key is the last occurrence.
C15_LastOccurrenceAlone ==
    Classified =>
        \A s \in AllSkus \ {EmptySku} :
            Len(Occurrences(s)) > 1 =>
                /\ EventCount(s) = IF Changed(s) THEN 1 ELSE 0
                /\ pc = "done" =>
                      file.data[s] = Occurrences(s)[Len(Occurrences(s))]

\* C16: no record of the persisted snapshot carries the event field
\* old_stock.
C16_NoEventFieldPersisted ==
    \A s \in DOMAIN file.data : file.data[s].old_stock = None

-----------------------------------------------------------------------------
(* Properties of the run with the write taken apart and terminations *)

\* C12: whenever a run starts, the snapshot file is absent or complete: an
\* interrupted save has left the whole old or the whole new snapshot, never
\* a truncated or partly written file.
C12_AtomicSave == pc = "start" => file.state # "corrupt"

Writing == pc \in {"first_run_writing", "writing"}

\* C13: in every state the file can be in (absent, written in full, left
\* empty or partly written by an interrupted save) load is defined and
\* returns the empty mapping or a mapping a save wrote in full, never part
\* of one: during a write it returns {} or the whole new mapping, and what a
\* run loaded is keyed by the sku of each record.
C13_LoadRecovers ==
    /\ file.state \in {"absent", "valid", "corrupt"}
    /\ file.state # "valid" => load_known_products(file) = EmptyDict
    /\ Writing =>
          load_known_products(file) \in {EmptyDict, products_dict(current_products)}
    /\ pc \in {"first_run", "done"} =>
          /\ DOMAIN load_known_products(file) = AllSkus \ ({EmptySku} \cup
                {s \in DOMAIN known_products : Occurrences(s) = << >>})
          /\ \A s \in DOMAIN load_known_products(file) :
                load_known_products(file)[s] = Occurrences(s)[Len(Occurrences(s))]
    /\ \A s \in DOMAIN known_products : known_products[s].sku = s

C13_Witness ==
    /\ pc = "first_run_save"
    /\ file.state = "corrupt"
    /\ file.data # EmptyDict
    /\ known_products = EmptyDict

AfterSend == {"restocked_done", "increased_done", "new_done"}

\* The loaded snapshot is still the one on disk, and the loop run on it over
\* the same fetch gives the same three lists.
WillDetectAgain ==
    /\ file.state = "valid"
    /\ file.data = known_products
    /\ Appended(load_known_products(file), Refetched, "restocked") = restocked
    /\ Appended(load_known_products(file), Refetched, "increased") = increased_stock
    /\ Appended(load_known_products(file), Refetched, "new") = new_products

\* Every non-empty list has been given to send_discord_notification.
AllSendsAttempted ==
    webhook =>
        /\ restocked # << >> => WithTitle("RESTOCK ALERT!") # << >>
        /\ increased_stock # << >> => WithTitle("Stock Increased") # << >>
        /\ new_products # << >> => WithTitle("New Products Added!") # << >>

\* C18: a termination after a send and before the save leaves the snapshot
\* that was loaded, and the next run over the same fetch produces the same
\* events; and at every termination point either nothing was detected yet,
\* or the next run will detect the same events again, or all the sends of
\* this run have been made.
C18_AtLeastOnceOnTermination ==
    [][(pc \in Running /\ pc' = "start") =>
          /\ pc \in AfterSend => (file' = file /\ WillDetectAgain)
          /\ \/ NoEvents
             \/ file' = file /\ WillDetectAgain
             \/ pc = "writing" /\ AllSendsAttempted]_vars

C18_Witness ==
    /\ pc = "new_done"
    /\ restocked # << >>
    /\ new_products # << >>
    /\ Len(outbox) = 2
    /\ WillDetectAgain

\* C20: a run that finds the file unreadable or holding an empty mapping
\* skips the loop (no event for any fetched record, whatever its stock, and
\* no post) and, once its save is complete, the file holds the current fetch
\* and nothing of what it held before.
C20_UnreadableSeedsBaseline ==
    [][/\ (/\ pc = "fetched"
           /\ pc' \notin {"fetched", "start"}
           /\ (file.state # "valid" \/ file.data = EmptyDict)) =>
              /\ pc' = "first_run_save"
              /\ known_products' = EmptyDict
       /\ pc' \in {"first_run_save", "first_run_writing", "first_run"} =>
              /\ NoEvents'
              /\ outbox' = << >>
       /\ pc' = "first_run" =>
              /\ file'.state = "valid"
              /\ DOMAIN file'.data =
                    {current_products'[i].sku : i \in DOMAIN current_products'}
                        \ {EmptySku}]_vars

C20_Witness ==
    /\ pc = "first_run_save"
    /\ file.state = "corrupt"
    /\ known_products = EmptyDict
    /\ NoEvents
    /\ \E i \in DOMAIN current_products :
          /\ current_products[i].sku \in DOMAIN file.data
          /\ current_products[i].stock_qty
                > file.data[current_products[i].sku].stock_qty

-----------------------------------------------------------------------------
(* Properties of monitor.py and monitor_once.py *)

\* C17: the looped monitor, started without a known-products file, posts
\* nothing in the check that is its first successful fetch (nothing loaded,
\* products fetched): those products were in the catalogue already.
C17_NoAlertForExistingProducts ==
    (mon.pc = "loop" /\ mon.known = << >> /\ mon.current # << >>) =>
        mon.sent = << >>

\* The positions of the fetch of the step whose url is not in the file.
Fresh ==
    {i \in DOMAIN mon'.current :
        \A j \in DOMAIN MonLoad(mon.file) : MonLoad(mon.file)[j] # mon'.current[i]}

\* C19: a step of monitor.py or monitor_once.py rewrites the known-products
\* file only when its fetch holds a url that is not in the file (the
\* first-run seeding included), and then with that fetch; a fetch without
\* such a url leaves the file as it is and posts nothing, and no url that
\* is in the file is ever posted, so a url that left the catalogue stays
\* known and is silent when it returns.
C19_FileWrittenOnlyOnNewUrl ==
    [][/\ mon'.file # mon.file =>
              (Fresh # {} /\ mon'.file = [state |-> "valid", data |-> mon'.current])
       /\ (mon' # mon /\ Fresh = {}) =>
              (mon'.file = mon.file /\ mon'.sent = << >>)
       /\ mon' # mon =>
              \A i \in DOMAIN mon'.sent :
                  \A j \in DOMAIN MonLoad(mon.file) :
                      MonLoad(mon.file)[j] # mon'.sent[i]]_vars

C19_Witness ==
    /\ mon.pc \in {"loop", "once"}
    /\ mon.known = <<1, 2>>
    /\ mon.current = <<2>>
    /\ mon.sent = << >>
    /\ mon.file = [state |-> "valid", data |-> <<1, 2>>]

-----------------------------------------------------------------------------
(* Properties of the events of one classification loop *)

\* The files an earlier run can have written.
Snapshots == {save_known_products(earlier) : earlier \in FetchLists}

\* main() at the head of the loop: the fetch is not empty and the snapshot
\* that was loaded, written by an earlier run, is not empty either.
InitLoop ==
    /\ mon = MonInit
    /\ webhook \in BOOLEAN
    /\ pc = "loaded"
    /\ current_products \in FetchLists \ {<< >>}
    /\ file \in Snapshots
    /\ known_products = load_known_products(file)
    /\ known_products # EmptyDict
    /\ restocked = << >>
    /\ increased_stock = << >>
    /\ new_products = << >>
    /\ outbox = << >>

NextLoop == Classify

SpecLoop == InitLoop /\ [][NextLoop]_vars

\* The events of the cycle, over the three lists.
Events == restocked \o increased_stock \o new_products

\* The record yields no event: no key, no stock, or a known key whose stock
\* did not rise.
Silent(product) ==
    \/ product.sku = EmptySku
    \/ product.stock_qty = 0
    \/ /\ product.sku \in DOMAIN known_products
       /\ product.stock_qty <= known_products[product.sku].stock_qty

\* C21: after the classification loop of main, every event has a key and
\* new_stock > 0; every Restocked or Increased event carries the old_stock of
\* the snapshot and has new_stock > old_stock, a New event carries none; and
\* no event stands for a fetched record that has an empty key, stock 0, or a
\* known key whose stock did not rise.
C21_EventsRise ==
    Classified =>
        /\ \A i \in DOMAIN Events :
              /\ Events[i].sku # EmptySku
              /\ Events[i].stock_qty > 0
        /\ \A i \in DOMAIN (restocked \o increased_stock) :
              LET e == (restocked \o increased_stock)[i]
              IN  /\ e.sku \in DOMAIN known_products
                  /\ e.old_stock # None
                  /\ e.old_stock = known_products[e.sku].stock_qty
                  /\ e.stock_qty > e.old_stock
        /\ \A i \in DOMAIN new_products :
              /\ new_products[i].old_stock = None
              /\ new_products[i].sku \notin DOMAIN known_products
        /\ \A i \in DOMAIN current_products :
              Silent(current_products[i]) =>
                  \A j \in DOMAIN Events :
                      ~ /\ Events[j].sku = current_products[i].sku
                        /\ Events[j].stock_qty = current_products[i].stock_qty

\* An Increased event next to a fetched record that has stock but no key.
C21_Witness ==
    /\ Classified
    /\ increased_stock # << >>
    /\ \E i \in DOMAIN current_products :
          /\ current_products[i].sku = EmptySku
          /\ current_products[i].stock_qty > 0

====
